---------------------------- MODULE Spec2Model ----------------------------
(***************************************************************************)
(* Model of scripts/make_loader_gif.py: the LZW encoder (lzw_compress),    *)
(* the sub-block framer (subblocks), the container writer (write_gif),     *)
(* the scanline rasterizer (fill_polygon), the path parser                 *)
(* (parse_svg_paths) and the colour selection of build_frame.              *)
(***************************************************************************)
EXTENDS Integers, Sequences, FiniteSets, TLC

VARIABLES
  pc,         \* which function runs and where it stands
  \* lzw_compress
  indices,    \* the index stream
  pos,        \* 1-based position of the next symbol k
  table,      \* dict from symbol strings to codes
  next_code,
  code_size,
  w,          \* current match string
  out_codes,  \* codes of the first pass
  packed,     \* bytes written by emit
  cur,        \* bit accumulator of emit
  bits,       \* number of pending bits in cur
  emit_log,   \* the emit calls of the last step: code, nbits, cur and bits after it
  \* subblocks
  data,       \* the byte string to frame
  sb_i,       \* i, 0-based offset of the next chunk
  sb_out,     \* out
  \* write_gif
  frames,     \* the list of frames, each an index stream
  gif_k,      \* number of frames written
  gif_out,    \* out
  \* fill_polygon
  buf,        \* the pixel buffer, positions 0..W*H-1
  buf0,       \* the buffer as it was when fill_polygon was called
  poly,       \* the polygon, vertices in half pixels
  color_idx,
  \* parse_svg_paths
  cmds,       \* the commands the path descriptions were written from
  svg,        \* path_ds, the d attributes that line 38 finds, as character lists
  path_i,     \* number of path descriptions taken from path_ds
  toks,       \* the tokens of the current path description
  tok_i,      \* i, 0-based index of the next token
  cmd,        \* the current command letter, "" for None
  cur_pt,     \* cur, the current point
  pts,        \* the points of the current path description
  paths,      \* the result
  \* main's loop over build_frame
  npaths,     \* len(paths)
  frame_idx,
  colors,     \* the colour build_frame chose for each polygon in the last frame
  seen        \* per polygon, the colours chosen so far

lzwVars == <<indices, pos, table, next_code, code_size, w, out_codes,
             packed, cur, bits, emit_log>>

subVars == <<data, sb_i, sb_out>>

gifVars == <<frames, gif_k, gif_out>>

fillVars == <<buf, buf0, poly, color_idx>>

parseVars == <<cmds, svg, path_i, toks, tok_i, cmd, cur_pt, pts, paths>>

frameVars == <<npaths, frame_idx, colors, seen>>

vars == <<pc, lzwVars, subVars, gifVars, fillVars, parseVars, frameVars>>

\* the variables of the functions a specification does not run
IdleLzw ==
  /\ indices = <<>> /\ pos = 0 /\ table = <<>> /\ next_code = 0
  /\ code_size = 0 /\ w = <<>> /\ out_codes = <<>> /\ packed = <<>>
  /\ cur = 0 /\ bits = 0 /\ emit_log = <<>>

IdleSub == data = <<>> /\ sb_i = 0 /\ sb_out = <<>>

IdleGif == frames = <<>> /\ gif_k = 0 /\ gif_out = <<>>

IdleFill == buf = <<>> /\ buf0 = <<>> /\ poly = <<>> /\ color_idx = 0

IdleParse ==
  /\ cmds = <<>> /\ svg = <<>> /\ path_i = 0 /\ toks = <<>> /\ tok_i = 0
  /\ cmd = "" /\ cur_pt = <<>> /\ pts = <<>> /\ paths = <<>>

IdleFrames == npaths = 0 /\ frame_idx = 0 /\ colors = <<>> /\ seen = <<>>

----------------------------------------------------------------------------
(* Bounds of the model *)

\* short index streams have 1..MaxLen symbols
MaxLen == 4

\* symbols that follow the table overflow in the long index stream
LongTail == 1

\* byte strings handed to subblocks have 0..MaxData bytes
MaxData == 520

\* write_gif is given 0..MaxFrames frames
MaxFrames == 3

\* length of the generated frame whose LZW data exceeds one sub-block
GenFrameLen == 900

\* a closed simple path has 2..MaxLines LineTo commands
MaxLines == 3

\* mixed path descriptions have 1..MaxCmds commands
MaxCmds == 3

\* main hands build_frame 1..MaxPaths polygons
MaxPaths == 12

\* the canvas is W x H pixels (the script sets both to 220)
W == 20

H == 20

----------------------------------------------------------------------------
(* Arithmetic helpers *)

RECURSIVE Pow2(_)
Pow2(n) == IF n = 0 THEN 1 ELSE 2 * Pow2(n - 1)

\* Python's a | b on non-negative integers
RECURSIVE BitOr(_, _)
BitOr(a, b) ==
  IF a = 0 THEN b
  ELSE IF b = 0 THEN a
  ELSE (IF (a % 2 = 1) \/ (b % 2 = 1) THEN 1 ELSE 0) + 2 * BitOr(a \div 2, b \div 2)

\* all sequences over S with lo..hi elements
SeqsOf(S, lo, hi) == UNION {[1..n -> S] : n \in lo..hi}

----------------------------------------------------------------------------
(* lzw_compress *)

\* min_code_size as write_gif passes it
min_code_size == 2

\* the capacity test of lines 172 and 213
TableLimit == 4096

\* the ceiling of code_size, lines 175 and 216
MaxCodeSize == 12

\* An index stream is held as [len, syms]: syms lists the symbols, or is
\* empty when the stream is the generated long stream, whose symbol i
\* (1-based) is ((i-1)^3 mod 32749) mod 4.
Stream(seq) == [len |-> Len(seq), syms |-> seq]

LongSym(i) == (((((i - 1) * (i - 1)) % 32749) * (i - 1)) % 32749) % 4

Sym(ind, i) == IF ind.syms = <<>> THEN LongSym(i) ELSE ind.syms[i]

Symbols(ind) == [i \in 1..ind.len |-> Sym(ind, i)]

ClearCode(mcs) == Pow2(mcs)

EndCode(mcs) == ClearCode(mcs) + 1

\* {bytes([i]): i for i in range(clear)}
LiteralTable(mcs) == [s \in {<<i>> : i \in 0..(ClearCode(mcs) - 1)} |-> s[1]]

\* EncStep with an overflow branch that leaves code_size as it is; C8 tells
\* the two apart
EncStepKeepsSize(mcs, s, k) ==
  LET wk == Append(s.w, k) IN
  IF wk \in DOMAIN s.table
  THEN [s |-> [s EXCEPT !.w = wk], codes |-> <<>>]
  ELSE IF s.next_code < TableLimit
       THEN LET nc == s.next_code + 1 IN
            [s |-> [s EXCEPT
                      !.table     = s.table @@ (wk :> s.next_code),
                      !.next_code = nc,
                      !.code_size = IF nc = Pow2(s.code_size) /\ s.code_size < MaxCodeSize
                                    THEN s.code_size + 1 ELSE s.code_size,
                      !.w         = <<k>>],
             codes |-> <<s.table[s.w]>>]
       ELSE [s |-> [s EXCEPT
                      !.table     = LiteralTable(mcs),
                      !.next_code = EndCode(mcs) + 1,
                      !.w         = <<k>>],
             codes |-> <<s.table[s.w], ClearCode(mcs)>>]

\* The body of "for k in indices[1:]" on the encoder variables of s
\* (table, next_code, code_size, w). codes are the codes the iteration
\* produces, in order: the first pass appends them to out_codes, the replay
\* hands each to emit with the code_size of the iteration's start.
EncStep(mcs, s, k) ==
  LET wk == Append(s.w, k) IN
  IF wk \in DOMAIN s.table
  THEN [s |-> [s EXCEPT !.w = wk], codes |-> <<>>]
  ELSE IF s.next_code < TableLimit
       THEN LET nc == s.next_code + 1 IN
            [s |-> [s EXCEPT
                      !.table     = s.table @@ (wk :> s.next_code),
                      !.next_code = nc,
                      !.code_size = IF nc = Pow2(s.code_size) /\ s.code_size < MaxCodeSize
                                    THEN s.code_size + 1 ELSE s.code_size,
                      !.w         = <<k>>],
             codes |-> <<s.table[s.w]>>]
       ELSE [s |-> [s EXCEPT
                      !.table     = LiteralTable(mcs),
                      !.next_code = EndCode(mcs) + 1,
                      !.code_size = mcs + 1,
                      !.w         = <<k>>],
             codes |-> <<s.table[s.w], ClearCode(mcs)>>]

\* Flush with the test bits > 8, which leaves a whole byte pending; C10
\* tells the two apart
RECURSIVE FlushLate(_)
FlushLate(a) ==
  IF a.bits > 8
  THEN FlushLate([packed |-> Append(a.packed, a.cur % 256),
                  cur    |-> a.cur \div 256,
                  bits   |-> a.bits - 8])
  ELSE a

\* while bits >= 8: packed.append(cur & 0xFF); cur >>= 8; bits -= 8
RECURSIVE Flush(_)
Flush(a) ==
  IF a.bits >= 8
  THEN Flush([packed |-> Append(a.packed, a.cur % 256),
              cur    |-> a.cur \div 256,
              bits   |-> a.bits - 8])
  ELSE a

\* emit(code, nbits) on the accumulator a = [packed, cur, bits]
emit(a, code, nbits) ==
  Flush([packed |-> a.packed,
         cur    |-> BitOr(a.cur, code * Pow2(a.bits)),
         bits   |-> a.bits + nbits])

\* emit every code of cs with nbits bits
RECURSIVE EmitAll(_, _, _)
EmitAll(a, cs, nbits) ==
  IF cs = <<>> THEN a ELSE EmitAll(emit(a, Head(cs), nbits), Tail(cs), nbits)

\* the record of the emit calls of EmitAll(a, cs, nbits): the code, its
\* width, and cur and bits as the call leaves them
RECURSIVE EmitLog(_, _, _)
EmitLog(a, cs, nbits) ==
  IF cs = <<>> THEN <<>>
  ELSE LET b == emit(a, Head(cs), nbits) IN
       <<[code |-> Head(cs), nbits |-> nbits, cur |-> b.cur, bits |-> b.bits]>>
         \o EmitLog(b, Tail(cs), nbits)

\* s with the emit calls for cs made
Emitted(s, cs, nbits) ==
  LET a0 == [packed |-> s.packed, cur |-> s.cur, bits |-> s.bits]
      a  == EmitAll(a0, cs, nbits)
  IN  [s EXCEPT !.packed = a.packed, !.cur = a.cur, !.bits = a.bits,
                !.emit_log = EmitLog(a0, cs, nbits)]

\* lines 157-165: the variables as the first pass starts
StartFirst(mcs, ind) ==
  [table     |-> LiteralTable(mcs),
   next_code |-> EndCode(mcs) + 1,
   code_size |-> mcs + 1,
   w         |-> <<Sym(ind, 1)>>,
   out_codes |-> <<ClearCode(mcs)>>,
   packed    |-> <<>>,
   cur       |-> 0,
   bits      |-> 0,
   emit_log  |-> <<>>,
   pos       |-> 2]

\* lines 166-182: one iteration of the first pass
IterFirst(mcs, ind, s) ==
  LET r == EncStep(mcs, s, Sym(ind, s.pos)) IN
  [r.s EXCEPT !.out_codes = s.out_codes \o r.codes, !.pos = s.pos + 1]

\* lines 183-206: the end of the first pass and the start of the replay
EndFirst(mcs, ind, s) ==
  Emitted([s EXCEPT
             !.out_codes = s.out_codes \o <<s.table[s.w], EndCode(mcs)>>,
             !.packed    = <<>>,
             !.cur       = 0,
             !.bits      = 0,
             !.table     = LiteralTable(mcs),
             !.next_code = EndCode(mcs) + 1,
             !.code_size = mcs + 1,
             !.w         = <<Sym(ind, 1)>>,
             !.pos       = 2],
          <<ClearCode(mcs)>>, mcs + 1)

\* lines 207-223: one iteration of the replay
IterReplay(mcs, ind, s) ==
  LET r == EncStep(mcs, s, Sym(ind, s.pos)) IN
  Emitted([r.s EXCEPT !.pos = s.pos + 1], r.codes, s.code_size)

\* lines 224-230: the last two codes and the partial byte
EndReplay(mcs, s) ==
  LET t == Emitted(s, <<s.table[s.w], EndCode(mcs)>>, s.code_size) IN
  [t EXCEPT !.packed = IF t.bits > 0 THEN Append(t.packed, t.cur % 256)
                       ELSE t.packed]

Iter(pass, mcs, ind, s) ==
  IF pass = "first" THEN IterFirst(mcs, ind, s) ELSE IterReplay(mcs, ind, s)

\* Up to n iterations of a pass from r.s, ending early at the end of the
\* stream or, with toReset, once an iteration has reset the table (r.reset).
RECURSIVE Run(_, _, _, _, _, _)
Run(pass, mcs, ind, toReset, r, n) ==
  IF n = 0 \/ r.s.pos > ind.len \/ (toReset /\ r.reset) THEN r
  ELSE IF n = 1
  THEN LET t == Iter(pass, mcs, ind, r.s) IN
       [s |-> t, reset |-> (r.s.next_code >= TableLimit /\ t.next_code < TableLimit)]
  ELSE Run(pass, mcs, ind, toReset,
           Run(pass, mcs, ind, toReset, r, n \div 2), n - (n \div 2))

\* the pass run from s to the end of the stream
RunPass(pass, mcs, ind, s) ==
  Run(pass, mcs, ind, FALSE, [s |-> s, reset |-> FALSE], ind.len).s

\* the pass run from s to the next table reset or the end of the stream
RunSegment(pass, mcs, ind, s) ==
  Run(pass, mcs, ind, TRUE, [s |-> s, reset |-> FALSE], ind.len).s

\* lzw_compress(min_code_size, indices): the bytes it returns
lzw_compress(mcs, ind) ==
  LET s1 == RunPass("first", mcs, ind, StartFirst(mcs, ind))
      s2 == RunPass("replay", mcs, ind, EndFirst(mcs, ind, s1))
  IN  EndReplay(mcs, s2).packed

\* the long stream fills the table with its first LongFill symbols
LongFill == 20364

LongStream == [len |-> LongFill + LongTail, syms |-> <<>>]

\* every pair of symbols once (a de Bruijn sequence), twice over: one code
\* per symbol at first, codes of table entries in the second half
MediumStream ==
  Stream(<<0, 0, 1, 0, 2, 0, 3, 1, 1, 2, 1, 3, 2, 2, 3, 3,
           0, 0, 1, 0, 2, 0, 3, 1, 1, 2, 1, 3, 2, 2, 3, 3>>)

ShortStreams ==
  {Stream(q) : q \in SeqsOf(0..(ClearCode(min_code_size) - 1), 1, MaxLen)}

loop ==
  [table |-> table, next_code |-> next_code, code_size |-> code_size, w |-> w,
   out_codes |-> out_codes, packed |-> packed, cur |-> cur, bits |-> bits,
   emit_log |-> emit_log, pos |-> pos]

SetLoop(s) ==
  /\ table' = s.table
  /\ next_code' = s.next_code
  /\ code_size' = s.code_size
  /\ w' = s.w
  /\ out_codes' = s.out_codes
  /\ packed' = s.packed
  /\ cur' = s.cur
  /\ bits' = s.bits
  /\ emit_log' = s.emit_log
  /\ pos' = s.pos

InitLzw ==
  /\ IdleSub /\ IdleGif /\ IdleFill /\ IdleParse /\ IdleFrames
  /\ pc = "first"
  /\ indices \in ShortStreams \cup {MediumStream, LongStream}
  /\ LET s == StartFirst(min_code_size, indices) IN
       /\ table = s.table
       /\ next_code = s.next_code
       /\ code_size = s.code_size
       /\ w = s.w
       /\ out_codes = s.out_codes
       /\ packed = s.packed
       /\ cur = s.cur
       /\ bits = s.bits
       /\ emit_log = s.emit_log
       /\ pos = s.pos

\* one iteration of the first pass
FirstPassStep ==
  /\ pc = "first"
  /\ pos <= indices.len
  /\ SetLoop(IterFirst(min_code_size, indices, loop))
  /\ UNCHANGED <<pc, indices, subVars, gifVars, fillVars, parseVars, frameVars>>

\* the iterations of the first pass from a literal-only table up to the
\* next table reset or the end of the stream, taken as one step
FirstPassSegment ==
  /\ pc = "first"
  /\ pos <= indices.len
  /\ next_code = EndCode(min_code_size) + 1
  /\ SetLoop(RunSegment("first", min_code_size, indices, loop))
  /\ UNCHANGED <<pc, indices, subVars, gifVars, fillVars, parseVars, frameVars>>

FirstPassEnd ==
  /\ pc = "first"
  /\ pos > indices.len
  /\ SetLoop(EndFirst(min_code_size, indices, loop))
  /\ pc' = "replay"
  /\ UNCHANGED <<indices, subVars, gifVars, fillVars, parseVars, frameVars>>

\* one iteration of the replay
ReplayStep ==
  /\ pc = "replay"
  /\ pos <= indices.len
  /\ SetLoop(IterReplay(min_code_size, indices, loop))
  /\ UNCHANGED <<pc, indices, subVars, gifVars, fillVars, parseVars, frameVars>>

\* the iterations of the replay from a literal-only table up to the next
\* table reset or the end of the stream, taken as one step
ReplaySegment ==
  /\ pc = "replay"
  /\ pos <= indices.len
  /\ next_code = EndCode(min_code_size) + 1
  /\ SetLoop(RunSegment("replay", min_code_size, indices, loop))
  /\ UNCHANGED <<pc, indices, subVars, gifVars, fillVars, parseVars, frameVars>>

ReplayEnd ==
  /\ pc = "replay"
  /\ pos > indices.len
  /\ SetLoop(EndReplay(min_code_size, loop))
  /\ pc' = "done"
  /\ UNCHANGED <<indices, subVars, gifVars, fillVars, parseVars, frameVars>>

NextLzw ==
  \/ FirstPassStep
  \/ FirstPassSegment
  \/ FirstPassEnd
  \/ ReplayStep
  \/ ReplaySegment
  \/ ReplayEnd

SpecLzw == InitLzw /\ [][NextLzw]_vars

----------------------------------------------------------------------------
(* The reference GIF LZW decoder of the round-trip property *)

\* bit p (0-based, least significant first) of the byte string bs
BitAt(bs, p) == (bs[(p \div 8) + 1] \div Pow2(p % 8)) % 2

\* the n-bit code that starts at bit p of bs
RECURSIVE ReadCode(_, _, _)
ReadCode(bs, p, n) ==
  IF n = 0 THEN 0 ELSE BitAt(bs, p) + 2 * ReadCode(bs, p + 1, n - 1)

\* The decoder on bs from bit p on, reading width bits per code. dt maps
\* the codes in use to their strings, dnext is the next free code, prev the
\* previous data code (-1 right after a ClearCode), out the symbols so far.
\* It adds one entry per data code except the first after a ClearCode and
\* widens when its own next free code reaches 2^width, up to 12 bits.
RECURSIVE DecodeFrom(_, _, _, _, _, _, _, _)
DecodeFrom(mcs, bs, p, width, dt, dnext, prev, out) ==
  IF p + width > 8 * Len(bs) THEN [ok |-> FALSE, out |-> out]
  ELSE
    LET code == ReadCode(bs, p, width) IN
    IF code = ClearCode(mcs)
    THEN DecodeFrom(mcs, bs, p + width, mcs + 1, LiteralTable(mcs),
                    EndCode(mcs) + 1, -1, out)
    ELSE IF code = EndCode(mcs) THEN [ok |-> TRUE, out |-> out]
    ELSE IF prev = -1
    THEN IF code < ClearCode(mcs)
         THEN DecodeFrom(mcs, bs, p + width, width, dt, dnext, code, out \o <<code>>)
         ELSE [ok |-> FALSE, out |-> out]
    ELSE IF code > dnext \/ (code = dnext /\ dnext >= TableLimit)
    THEN [ok |-> FALSE, out |-> out]
    ELSE
      LET ps    == IF prev < ClearCode(mcs) THEN <<prev>> ELSE dt[prev]
          entry == IF code < ClearCode(mcs) THEN <<code>>
                   ELSE IF code < dnext THEN dt[code]
                   ELSE Append(ps, ps[1])
          full  == dnext >= TableLimit
          dt2   == IF full THEN dt ELSE dt @@ (dnext :> Append(ps, entry[1]))
          dn2   == IF full THEN dnext ELSE dnext + 1
          w2    == IF ~full /\ dn2 = Pow2(width) /\ width < MaxCodeSize
                   THEN width + 1 ELSE width
      IN DecodeFrom(mcs, bs, p + width, w2, dt2, dn2, code, out \o entry)

gif_lzw_decode(mcs, bs) ==
  DecodeFrom(mcs, bs, 0, mcs + 1, <<>>, EndCode(mcs) + 1, -1, <<>>)

----------------------------------------------------------------------------
(* Claims about lzw_compress *)

\* C1: for every index stream of 1 or more symbols 0..3, the reference GIF
\* LZW decoder, fed the bytes lzw_compress(2, stream) returns, ends at the
\* EndCode having produced exactly the stream.
C1_RoundTrip ==
  pc = "done" =>
    gif_lzw_decode(min_code_size, packed) = [ok |-> TRUE, out |-> Symbols(indices)]

\* C8 (range): in both passes code_size stays in min_code_size+1 .. 12 and
\* next_code never exceeds 4096.
C8_Range ==
  pc \in {"first", "replay", "done"} =>
    /\ code_size >= min_code_size + 1
    /\ code_size <= 12
    /\ next_code <= 4096

\* C8 (reset): an iteration that meets a new string while next_code is 4096
\* hands on the code of w and then ClearCode, resets the table to the
\* literals, next_code to EndCode+1 and code_size to min_code_size+1, sets w
\* to the current symbol and goes on with the next symbol.
C8_Reset ==
  (/\ pc \in {"first", "replay"}
   /\ pos <= indices.len
   /\ next_code = 4096
   /\ Append(w, Sym(indices, pos)) \notin DOMAIN table)
  =>
  (/\ pc' = pc
   /\ pos' = pos + 1
   /\ table' = LiteralTable(min_code_size)
   /\ next_code' = EndCode(min_code_size) + 1
   /\ code_size' = min_code_size + 1
   /\ w' = <<Sym(indices, pos)>>
   /\ pc = "first" =>
        out_codes' = out_codes \o <<table[w], ClearCode(min_code_size)>>
   /\ pc = "replay" =>
        /\ Len(emit_log') = 2
        /\ emit_log'[1].code = table[w]
        /\ emit_log'[2].code = ClearCode(min_code_size)
        /\ emit_log'[1].nbits = code_size
        /\ emit_log'[2].nbits = code_size)

\* C8 (after a reset): a state whose last iteration ended with ClearCode
\* holds the literal-only table, next_code EndCode+1, code_size
\* min_code_size+1, and w the symbol of that iteration.
C8_AfterReset ==
  /\ (pc = "first" /\ pos > 2 /\ out_codes[Len(out_codes)] = ClearCode(min_code_size))
       => /\ table = LiteralTable(min_code_size)
          /\ next_code = EndCode(min_code_size) + 1
          /\ code_size = min_code_size + 1
          /\ w = <<Sym(indices, pos - 1)>>
  /\ (pc = "replay" /\ pos > 2 /\ emit_log # <<>>
        /\ emit_log[Len(emit_log)].code = ClearCode(min_code_size))
       => /\ table = LiteralTable(min_code_size)
          /\ next_code = EndCode(min_code_size) + 1
          /\ code_size = min_code_size + 1
          /\ w = <<Sym(indices, pos - 1)>>
          /\ Len(emit_log) = 2
          /\ emit_log[1].nbits = emit_log[2].nbits

\* C8: the table overflow is an in-band reset: the range always holds, every
\* overflowing iteration resets as described, and the encoder goes on.
C8_TableOverflow == [](C8_Range /\ C8_AfterReset) /\ [][C8_Reset]_vars

\* C8 witness: the replay has just emitted a code and ClearCode at 12 bits
\* and restarted from the literal table.
C8_Witness ==
  /\ pc = "replay"
  /\ pos > 2
  /\ Len(emit_log) = 2
  /\ emit_log[2].code = ClearCode(min_code_size)
  /\ emit_log[2].nbits = 12
  /\ next_code = EndCode(min_code_size) + 1
  /\ code_size = min_code_size + 1

\* C10: every code handed to emit is below 2^nbits for the code_size in
\* force, and after every emit call fewer than 8 bits are pending and cur
\* has no bit set at or above the pending count.
C10_CodesFit ==
  /\ pc \in {"replay", "done"} =>
       /\ bits < 8
       /\ cur < Pow2(bits)
  /\ pc \in {"replay", "done"} =>
       \A i \in 1..Len(emit_log) :
         /\ emit_log[i].code < Pow2(emit_log[i].nbits)
         /\ emit_log[i].bits < 8
         /\ emit_log[i].cur < Pow2(emit_log[i].bits)

\* C10 witness: the encoding of the long stream is complete: its last data
\* code and EndCode went out, after codes of every width from 3 to 12 bits.
C10_Witness ==
  /\ pc = "done"
  /\ indices = LongStream
  /\ Len(emit_log) = 2
  /\ emit_log[2].code = EndCode(min_code_size)
  /\ Len(packed) > 4096

----------------------------------------------------------------------------
(* subblocks *)

Min(a, b) == IF a <= b THEN a ELSE b

Max(a, b) == IF a >= b THEN a ELSE b

\* SubIter with chunks of 256 bytes; C7 tells the two apart
SubIterWide(dat, s) ==
  LET chunk == SubSeq(dat, s.i + 1, Min(s.i + 256, Len(dat))) IN
  [out |-> (s.out \o <<Len(chunk)>>) \o chunk, i |-> s.i + 256]

\* lines 237-240: one iteration of the while loop on s = [out, i]
SubIter(dat, s) ==
  LET chunk == SubSeq(dat, s.i + 1, Min(s.i + 255, Len(dat))) IN
  [out |-> (s.out \o <<Len(chunk)>>) \o chunk, i |-> s.i + 255]

RECURSIVE SubLoop(_, _)
SubLoop(dat, s) == IF s.i < Len(dat) THEN SubLoop(dat, SubIter(dat, s)) ELSE s

\* subblocks(data): the bytes it returns
subblocks(dat) == Append(SubLoop(dat, [out |-> <<>>, i |-> 0]).out, 0)

\* byte strings of n bytes that run through every byte value
DataOf(n, seed) == [i \in 1..n |-> (seed + 89 * i) % 256]

\* the byte strings framed: every length 0..MaxData, two contents each
DataSet == {DataOf(n, sd) : n \in 0..MaxData, sd \in {0, 167}}

InitSub ==
  /\ IdleLzw /\ IdleGif /\ IdleFill /\ IdleParse /\ IdleFrames
  /\ pc = "sub"
  /\ data \in DataSet
  /\ sb_i = 0
  /\ sb_out = <<>>

\* one iteration of the while loop
SubblocksStep ==
  /\ pc = "sub"
  /\ sb_i < Len(data)
  /\ LET s == SubIter(data, [out |-> sb_out, i |-> sb_i]) IN
       /\ sb_out' = s.out
       /\ sb_i' = s.i
  /\ UNCHANGED <<pc, data, lzwVars, gifVars, fillVars, parseVars, frameVars>>

\* lines 241-242: the terminator and the return
SubblocksEnd ==
  /\ pc = "sub"
  /\ sb_i >= Len(data)
  /\ sb_out' = Append(sb_out, 0)
  /\ pc' = "sub_done"
  /\ UNCHANGED <<data, sb_i, lzwVars, gifVars, fillVars, parseVars, frameVars>>

NextSub == SubblocksStep \/ SubblocksEnd

SpecSub == InitSub /\ [][NextSub]_vars

\* A reader of sub-blocks: from position p of bs (1-based) it takes a
\* length byte and that many payload bytes, again and again, up to a zero
\* length byte. lens are the length bytes read, payload the payload bytes,
\* inside their positions, next the position after the terminator.
RECURSIVE Unframe(_, _, _, _, _)
Unframe(bs, p, lens, payload, inside) ==
  IF p > Len(bs)
  THEN [ok |-> FALSE, lens |-> lens, payload |-> payload, inside |-> inside, next |-> p]
  ELSE IF bs[p] = 0
  THEN [ok |-> TRUE, lens |-> lens, payload |-> payload, inside |-> inside, next |-> p + 1]
  ELSE IF p + bs[p] > Len(bs)
  THEN [ok |-> FALSE, lens |-> lens, payload |-> payload, inside |-> inside, next |-> p]
  ELSE Unframe(bs, p + bs[p] + 1, Append(lens, bs[p]),
               payload \o SubSeq(bs, p + 1, p + bs[p]),
               inside \cup ((p + 1)..(p + bs[p])))

\* C7: subblocks(data) is a run of sub-blocks, each one length byte L in
\* 1..255 and L payload bytes, closed by one zero length byte that is the
\* last byte; every block but the last holds 255 bytes; the payloads in
\* order are data.
C7_SubblocksRoundTrip ==
  pc = "sub_done" =>
    LET u == Unframe(sb_out, 1, <<>>, <<>>, {}) IN
      /\ u.ok
      /\ u.next = Len(sb_out) + 1
      /\ \A j \in 1..Len(u.lens) : u.lens[j] >= 1 /\ u.lens[j] <= 255
      /\ \A j \in 1..(Len(u.lens) - 1) : u.lens[j] = 255
      /\ u.payload = data

\* C7 witness: a byte string of more than two full blocks has been framed
\* and its last block is a short one.
C7_Witness ==
  /\ pc = "sub_done"
  /\ Len(data) > 510
  /\ Len(data) % 255 = 3
  /\ sb_out[Len(sb_out)] = 0

----------------------------------------------------------------------------
(* write_gif *)

DELAY_CS == 4

TRANSPARENT_INDEX == 0

PALETTE == <<<<0, 0, 0>>, <<18, 30, 58>>, <<53, 99, 233>>, <<255, 255, 255>>>>

\* (v & 0xFF, (v >> 8) & 0xFF)
Le16(v) == <<v % 256, (v \div 256) % 256>>

RECURSIVE Flatten(_)
Flatten(ss) == IF ss = <<>> THEN <<>> ELSE Head(ss) \o Flatten(Tail(ss))

\* lines 247-263: signature, logical screen descriptor, global colour
\* table, Netscape loop extension
GifHeader ==
  LET gct_flag  == 1
      color_res == 7
      sort_flag == 0
      gct_size  == 1
      pk == BitOr(BitOr(BitOr(gct_flag * 128, color_res * 16), sort_flag * 8), gct_size)
  IN  <<71, 73, 70, 56, 57, 97>>
        \o Le16(W) \o Le16(H)
        \o <<pk, TRANSPARENT_INDEX, 0>>
        \o Flatten(PALETTE)
        \o <<33, 255, 11, 78, 69, 84, 83, 67, 65, 80, 69, 50, 46, 48, 3, 1, 0, 0, 0>>

\* FrameBlock with the LZW data written as it is, not as sub-blocks; C6
\* tells the two apart
FrameBlockUnframed(frame) ==
  <<33, 249, 4, 9>> \o Le16(DELAY_CS) \o <<TRANSPARENT_INDEX, 0>>
    \o <<44, 0, 0, 0, 0>> \o Le16(W) \o Le16(H) \o <<0>>
    \o <<min_code_size>>
    \o lzw_compress(min_code_size, frame) \o <<0>>

\* lines 266-280: what the loop body appends for one frame
FrameBlock(frame) ==
  <<33, 249, 4>>
    \o <<9>>
    \o Le16(DELAY_CS)
    \o <<TRANSPARENT_INDEX, 0>>
    \o <<44>>
    \o <<0, 0, 0, 0>> \o Le16(W) \o Le16(H) \o <<0>>
    \o <<min_code_size>>
    \o subblocks(lzw_compress(min_code_size, frame))

\* the frames written: one symbol; streams whose compressed bytes hold
\* 0x2C and 0x21; a generated stream whose compressed bytes need two
\* sub-blocks
FrameChoices ==
  {Stream(<<3>>), Stream(<<0, 1, 0, 1, 1>>), Stream(<<0, 0, 0, 0, 1>>),
   [len |-> GenFrameLen, syms |-> <<>>]}

InitGif ==
  /\ IdleLzw /\ IdleSub /\ IdleFill /\ IdleParse /\ IdleFrames
  /\ pc = "gif_start"
  /\ frames \in SeqsOf(FrameChoices, 0, MaxFrames)
  /\ gif_k = 0
  /\ gif_out = <<>>

WriteHeader ==
  /\ pc = "gif_start"
  /\ gif_out' = GifHeader
  /\ pc' = "gif_frames"
  /\ UNCHANGED <<frames, gif_k, lzwVars, subVars, fillVars, parseVars, frameVars>>

\* one iteration of "for frame in frames"
WriteFrame ==
  /\ pc = "gif_frames"
  /\ gif_k < Len(frames)
  /\ gif_out' = gif_out \o FrameBlock(frames[gif_k + 1])
  /\ gif_k' = gif_k + 1
  /\ UNCHANGED <<pc, frames, lzwVars, subVars, fillVars, parseVars, frameVars>>

\* lines 282-283: the trailer and the return
WriteTrailer ==
  /\ pc = "gif_frames"
  /\ gif_k = Len(frames)
  /\ gif_out' = Append(gif_out, 59)
  /\ pc' = "gif_done"
  /\ UNCHANGED <<frames, gif_k, lzwVars, subVars, fillVars, parseVars, frameVars>>

NextGif == WriteHeader \/ WriteFrame \/ WriteTrailer

SpecGif == InitGif /\ [][NextGif]_vars

\* A reader of the block structure of a GIF from the block that starts at
\* p: an extension (0x21, label, sub-blocks), an image (0x2C, 9 descriptor
\* bytes, the minimum code size, sub-blocks) or the trailer (0x3B), which
\* must be the last byte. imgs lists the images in order, each with the
\* block that came right before it; inside collects the positions of
\* sub-block payload bytes.
RECURSIVE GifBlocks(_, _, _, _, _)
GifBlocks(bs, p, prev, imgs, inside) ==
  IF p > Len(bs) THEN [ok |-> FALSE, imgs |-> imgs, inside |-> inside]
  ELSE IF bs[p] = 59 THEN [ok |-> p = Len(bs), imgs |-> imgs, inside |-> inside]
  ELSE IF bs[p] = 33 /\ p + 2 <= Len(bs)
  THEN LET u == Unframe(bs, p + 2, <<>>, <<>>, {}) IN
       IF u.ok
       THEN GifBlocks(bs, u.next, SubSeq(bs, p, u.next - 1), imgs, inside \cup u.inside)
       ELSE [ok |-> FALSE, imgs |-> imgs, inside |-> inside]
  ELSE IF bs[p] = 44 /\ p + 11 <= Len(bs)
  THEN LET u == Unframe(bs, p + 11, <<>>, <<>>, {}) IN
       IF u.ok
       THEN GifBlocks(bs, u.next, <<>>,
                      Append(imgs, [before |-> prev,
                                    desc   |-> SubSeq(bs, p + 1, p + 9),
                                    mcs    |-> bs[p + 10],
                                    blocks |-> SubSeq(bs, p + 11, u.next - 1),
                                    lzw    |-> u.payload]),
                      inside \cup u.inside)
       ELSE [ok |-> FALSE, imgs |-> imgs, inside |-> inside]
  ELSE [ok |-> FALSE, imgs |-> imgs, inside |-> inside]

\* the first block after the logical screen descriptor and the global
\* colour table it announces
FirstBlock(bs) ==
  14 + (IF bs[11] >= 128 THEN 3 * Pow2((bs[11] % 8) + 1) ELSE 0)

\* C6: the bytes write_gif returns for N frames start with GIF89a, end with
\* 0x3B, and hold exactly N bytes 0x2C outside sub-block data, one image
\* descriptor per frame in the order of the list, each right after its
\* Graphic Control Extension and followed by the minimum code size 2 and
\* the sub-blocks of that frame's LZW data.
C6_ContainerStructure ==
  pc = "gif_done" =>
    LET g == GifBlocks(gif_out, FirstBlock(gif_out), <<>>, <<>>, {}) IN
      /\ SubSeq(gif_out, 1, 6) = <<71, 73, 70, 56, 57, 97>>
      /\ gif_out[Len(gif_out)] = 59
      /\ g.ok
      /\ Len(g.imgs) = Len(frames)
      /\ Cardinality({p \in 1..Len(gif_out) : gif_out[p] = 44 /\ p \notin g.inside})
           = Len(frames)
      /\ \A j \in 1..Len(frames) :
           /\ g.imgs[j].before = <<33, 249, 4, 9, 4, 0, 0, 0>>
           /\ g.imgs[j].mcs = 2
           /\ g.imgs[j].lzw = lzw_compress(2, frames[j])
           /\ g.imgs[j].blocks = subblocks(lzw_compress(2, frames[j]))

\* C6 witness: three frames have been written, among them the frame whose
\* data fills more than one sub-block and the frame whose data holds 0x2C.
C6_Witness ==
  /\ pc = "gif_done"
  /\ Len(frames) = 3
  /\ frames[1] = Stream(<<0, 1, 0, 1, 1>>)
  /\ frames[2].len = GenFrameLen
  /\ frames[3] = Stream(<<3>>)

----------------------------------------------------------------------------
(* fill_polygon *)

\* Vertices are held in half pixels, as pairs <<x, y>> of integers, so
\* that the scanline centre y + 0.5 is the integer 2y + 1. An x-intercept
\* is held exactly, as <<num, den>> with den > 0, for num / den half
\* pixels. The script computes it in floating point, which can round away
\* from the exact value; the two agree on floor and ceil unless a slanted
\* edge meets a scanline centre exactly at an integer x, and polygons where
\* that happens (not ExactCrossings) are left out of the inputs.

\* int(math.floor(a / b)) and int(math.ceil(a / b)) for b > 0
FloorDiv(a, b) == a \div b

CeilDiv(a, b) == -((-a) \div b)

RECURSIVE SeqMin(_)
SeqMin(q) == IF Len(q) = 1 THEN q[1] ELSE Min(q[1], SeqMin(Tail(q)))

RECURSIVE SeqMax(_)
SeqMax(q) == IF Len(q) = 1 THEN q[1] ELSE Max(q[1], SeqMax(Tail(q)))

\* ys = [p[1] for p in poly]
Ys(pl) == [i \in 1..Len(pl) |-> pl[i][2]]

\* lines 109-110
YMin(pl) == Max(0, FloorDiv(SeqMin(Ys(pl)), 2))

YMax(pl) == Min(H - 1, CeilDiv(SeqMax(Ys(pl)), 2))

\* lines 116-122 for edge i: the intercept of the edge from vertex i to
\* the next one (the last wraps to the first) with the centre of row y,
\* or nothing
EdgeCrossing(pl, i, y) ==
  LET n      == Len(pl)
      x1     == pl[i][1]
      y1     == pl[i][2]
      x2     == pl[(i % n) + 1][1]
      y2     == pl[(i % n) + 1][2]
      scan_y == 2 * y + 1
      num    == x1 * (y2 - y1) + (scan_y - y1) * (x2 - x1)
  IN  IF y1 = y2 THEN <<>>
      ELSE IF (y1 <= scan_y /\ scan_y < y2) \/ (y2 <= scan_y /\ scan_y < y1)
      THEN IF y2 > y1 THEN <<<<num, y2 - y1>>>> ELSE <<<<-num, y1 - y2>>>>
      ELSE <<>>

\* lines 114-122: xs for row y, in edge order, edges i..n
RECURSIVE Crossings(_, _, _)
Crossings(pl, i, y) ==
  IF i > Len(pl) THEN <<>>
  ELSE EdgeCrossing(pl, i, y) \o Crossings(pl, i + 1, y)

\* xs.sort()
Less(a, b) == a[1] * b[2] < b[1] * a[2]

RECURSIVE Insert(_, _)
Insert(xs, v) ==
  IF xs = <<>> THEN <<v>>
  ELSE IF Less(v, Head(xs)) THEN <<v>> \o xs
  ELSE <<Head(xs)>> \o Insert(Tail(xs), v)

RECURSIVE Sorted(_)
Sorted(xs) == IF xs = <<>> THEN <<>> ELSE Insert(Sorted(Tail(xs)), Head(xs))

\* XStart without the clamp to column 0; C9 tells the two apart
XStartUnclamped(xs, j) == CeilDiv(xs[j][1], 2 * xs[j][2])

\* lines 125-126 for the pair xs[j], xs[j+1] (1-based)
XStart(xs, j) == Max(0, CeilDiv(xs[j][1], 2 * xs[j][2]))

XEnd(xs, j) == Min(W - 1, FloorDiv(xs[j + 1][1], 2 * xs[j + 1][2]))

\* lines 124-130: the <<y, x>> written for row y, in order, pairs j, j+2, ...
RECURSIVE RowWrites(_, _, _)
RowWrites(xs, j, y) ==
  IF j + 1 > Len(xs) THEN <<>>
  ELSE [k \in 1..Max(0, XEnd(xs, j) - XStart(xs, j) + 1) |-> <<y, XStart(xs, j) + k - 1>>]
         \o RowWrites(xs, j + 2, y)

\* the <<y, x>> for which fill_polygon executes buf[y * W + x] = color_idx,
\* in order, rows y..YMax
RECURSIVE WritesFrom(_, _)
WritesFrom(pl, y) ==
  IF y > YMax(pl) THEN <<>>
  ELSE RowWrites(Sorted(Crossings(pl, 1, y)), 1, y) \o WritesFrom(pl, y + 1)

FillWrites(pl) == WritesFrom(pl, YMin(pl))

\* buf[i] = v on a list of n items: i counts from the end when negative,
\* and is an IndexError outside -n..n-1
InRange(i, n) == i >= -n /\ i < n

ListIndex(i, n) == IF i < 0 THEN n + i ELSE i

\* the stores before the first one that raises
GoodPrefix(ws) ==
  LET bad == {k \in 1..Len(ws) : ~InRange(ws[k][1] * W + ws[k][2], W * H)} IN
  IF bad = {} THEN ws
  ELSE SubSeq(ws, 1, (CHOOSE k \in bad : \A j \in bad : k <= j) - 1)

\* fill_polygon(buf, poly, color_idx): the buffer it leaves and whether it
\* raised
fill_polygon(b, pl, c) ==
  LET ws   == FillWrites(pl)
      good == GoodPrefix(ws)
      at   == {ListIndex(good[k][1] * W + good[k][2], W * H) : k \in 1..Len(good)}
  IN  [buf    |-> [p \in 0..(W * H - 1) |-> IF p \in at THEN c ELSE b[p]],
       raised |-> Len(good) < Len(ws)]

\* no slanted edge meets a scanline centre at an integer x
ExactCrossings(pl) ==
  \A y \in YMin(pl)..YMax(pl) : \A i \in 1..Len(pl) :
    LET c == EdgeCrossing(pl, i, y) IN
      (c # <<>> /\ pl[i][1] # pl[(i % Len(pl)) + 1][1]) => c[1][1] % (2 * c[1][2]) # 0

\* the axis-aligned square of side s pixels at offset (x0, y0), corners in
\* the order (x0,y0), (x0+s,y0), (x0+s,y0+s), (x0,y0+s)
Square(x0, y0, s) ==
  <<<<2 * x0, 2 * y0>>, <<2 * (x0 + s), 2 * y0>>,
    <<2 * (x0 + s), 2 * (y0 + s)>>, <<2 * x0, 2 * (y0 + s)>>>>

\* squares with integer side and offset
Squares ==
  {Square(x0, y0, s) : x0 \in {0, 2, 5, 10}, y0 \in {0, 2, 5, 10}, s \in 1..Min(W, H)}

InCanvas(pl) ==
  \A i \in 1..Len(pl) :
    pl[i][1] >= 0 /\ pl[i][1] <= 2 * W /\ pl[i][2] >= 0 /\ pl[i][2] <= 2 * H

\* vertex coordinates of the other polygons, in half pixels: left of and
\* above the canvas, inside it, right of and below it
TriCoords == {-6, 5, 18, 2 * W + 6}

QuadCoords == {-6, 14, 2 * W + 6}

Triangles == [1..3 -> TriCoords \X TriCoords]

Quads == [1..4 -> QuadCoords \X QuadCoords]

Background == [p \in 0..(W * H - 1) |-> TRANSPARENT_INDEX]

\* a buffer that holds every palette index
Painted == [p \in 0..(W * H - 1) |-> (p + (p \div W)) % 4]

\* The colour index plays no part in the geometry: squares and triangles
\* are filled with each of the three colours, quadrilaterals with one.
InitFill ==
  /\ IdleLzw /\ IdleSub /\ IdleGif /\ IdleParse /\ IdleFrames
  /\ pc = "fill"
  /\ \/ /\ poly \in {q \in Squares : InCanvas(q)}
        /\ buf = Background
        /\ color_idx \in 1..3
     \/ /\ poly \in {q \in Triangles : ExactCrossings(q)}
        /\ buf = Painted
        /\ color_idx \in 1..3
     \/ /\ poly \in {q \in Quads : ExactCrossings(q)}
        /\ buf = Painted
        /\ color_idx = 2
  /\ buf0 = buf

\* the call fill_polygon(buf, poly, color_idx)
FillPolygon ==
  /\ pc = "fill"
  /\ LET r == fill_polygon(buf, poly, color_idx) IN
       /\ buf' = r.buf
       /\ pc' = IF r.raised THEN "fill_raised" ELSE "filled"
  /\ UNCHANGED <<buf0, poly, color_idx, lzwVars, subVars, gifVars, parseVars, frameVars>>

NextFill == FillPolygon

SpecFill == InitFill /\ [][NextFill]_vars

\* the pixels <<y, x>> of the square of side s at (x0, y0)
SquarePixels(x0, y0, s) == {y * W + x : y \in y0..(y0 + s - 1), x \in x0..(x0 + s - 1)}

\* C2: fill_polygon on an all-background buffer with the square of integer
\* side s at integer offset (x0, y0) inside the canvas colours exactly the
\* s*s pixels with x in x0..x0+s-1 and y in y0..y0+s-1 and leaves the others
\* as they were; so for the square (5,5),(15,5),(15,15),(5,15), 100 pixels.
C2_SquareExactFill ==
  (pc = "filled" /\ buf0 = Background) =>
    \A x0 \in 0..(W - 1), y0 \in 0..(H - 1), s \in 1..Min(W, H) :
      (poly = Square(x0, y0, s) /\ InCanvas(poly)) =>
        \A p \in 0..(W * H - 1) :
          buf[p] = IF p \in SquarePixels(x0, y0, s) THEN color_idx ELSE buf0[p]

\* C9: for any polygon fill_polygon raises nothing, stores only at
\* row*W + x with 0 <= row <= H-1 and 0 <= x <= W-1, leaves the colour index
\* at every position it stores to, and leaves the other positions as they
\* were.
C9_ClampedFill ==
  /\ pc # "fill_raised"
  /\ pc = "filled" =>
       LET ws == FillWrites(poly)
           at == {ws[k][1] * W + ws[k][2] : k \in 1..Len(ws)}
       IN  /\ \A k \in 1..Len(ws) :
                 /\ ws[k][1] >= 0 /\ ws[k][1] <= H - 1
                 /\ ws[k][2] >= 0 /\ ws[k][2] <= W - 1
           /\ \A p \in 0..(W * H - 1) :
                 buf[p] = IF p \in at THEN color_idx ELSE buf0[p]

\* C9 witness: a triangle with a vertex left of and above the canvas and a
\* vertex right of and below it has been filled; it stores to the first and
\* to the last column, and some position keeps what it held.
C9_Witness ==
  /\ pc = "filled"
  /\ Len(poly) = 3
  /\ \E i \in 1..3 : poly[i][1] < 0 /\ poly[i][2] < 0
  /\ \E i \in 1..3 : poly[i][1] > 2 * W /\ poly[i][2] > 2 * H
  /\ color_idx = 3
  /\ \E y \in 0..(H - 1) : buf[y * W] = 3 /\ buf0[y * W] # 3
  /\ \E y \in 0..(H - 1) : buf[y * W + W - 1] = 3 /\ buf0[y * W + W - 1] # 3
  /\ \E p \in 0..(W * H - 1) : buf[p] # 3

----------------------------------------------------------------------------
(* parse_svg_paths *)

\* A path description is a list of one-character strings.  The model's
\* descriptions hold command letters, digits, '-', ',', ' ' and 'H'; they
\* hold no '.' and no exponent.
CmdChars == {"M", "L", "C", "Z", "m", "l", "c", "z"}

Digits == <<"0", "1", "2", "3", "4", "5", "6", "7", "8", "9">>

IsDigit(ch) == \E k \in 1..10 : Digits[k] = ch

DigitVal(ch) == (CHOOSE k \in 1..10 : Digits[k] = ch) - 1

\* the first position from q on that holds no digit
RECURSIVE DigitsEnd(_, _)
DigitsEnd(d, q) ==
  IF q <= Len(d) /\ IsDigit(d[q]) THEN DigitsEnd(d, q + 1) ELSE q

\* line 41, re.findall from position p: a command letter, or an optional
\* '-' and a run of digits; any other character is skipped
RECURSIVE Tokens(_, _)
Tokens(d, p) ==
  IF p > Len(d) THEN <<>>
  ELSE IF d[p] \in CmdChars THEN <<SubSeq(d, p, p)>> \o Tokens(d, p + 1)
  ELSE LET q == IF d[p] = "-" THEN p + 1 ELSE p
           e == DigitsEnd(d, q)
       IN  IF e > q THEN <<SubSeq(d, p, e - 1)>> \o Tokens(d, e)
           ELSE Tokens(d, p + 1)

\* line 48, re.fullmatch(r'[MLCZmlcz]', t)
IsCommand(t) == Len(t) = 1 /\ t[1] \in CmdChars

\* the value of a run of digits
RECURSIVE Natural(_)
Natural(t) ==
  IF t = <<>> THEN 0
  ELSE 10 * Natural(SubSeq(t, 1, Len(t) - 1)) + DigitVal(t[Len(t)])

\* float(t) of a number token
Float(t) == IF t[1] = "-" THEN -Natural(Tail(t)) ELSE Natural(t)

\* float(toks[i]) .. float(toks[i+n-1]) raise: IndexError past the end of
\* toks, ValueError on a command letter
ArgsRaise(tk, i, n) ==
  \E j \in i..(i + n - 1) : j >= Len(tk) \/ IsCommand(tk[j + 1])

\* points are held in units of 1/4096, which cubic's results with
\* t = s/16 and integer control points are whole multiples of
steps == 16

Unit == steps * steps * steps

Pt(x, y) == <<Unit * x, Unit * y>>

\* lines 29-34 with t = s / steps; the double arithmetic is exact for the
\* coordinates of the model
cubic(p0, p1, p2, p3, s) ==
  LET mt == steps - s
      B(a, b, c, e) == mt * mt * mt * a + 3 * mt * mt * s * b + 3 * mt * s * s * c + s * s * s * e
  IN  <<B(p0[1], p1[1], p2[1], p3[1]), B(p0[2], p1[2], p2[2], p3[2])>>

\* OnCommand with a Z that appends the first point again; C4 tells the two
\* apart
OnCommandCloses(st, t) ==
  [st EXCEPT !.cmd = t[1], !.i = st.i + 1,
             !.broke = t[1] \in {"Z", "z"},
             !.pts = IF t[1] \in {"Z", "z"} /\ st.pts # <<>>
                     THEN Append(st.pts, st.pts[1]) ELSE st.pts]

\* lines 49-53: the token is a command letter
OnCommand(st, t) ==
  [st EXCEPT !.cmd = t[1], !.i = st.i + 1,
             !.broke = t[1] \in {"Z", "z"}]

\* lines 55-60
OnMoveLine(st) ==
  IF ArgsRaise(st.toks, st.i, 2) THEN [st EXCEPT !.raised = TRUE]
  ELSE LET x == Float(st.toks[st.i + 1])
           y == Float(st.toks[st.i + 2])
       IN  [st EXCEPT !.i = st.i + 2, !.cur = <<x, y>>,
                      !.pts = Append(st.pts, Pt(x, y)), !.cmd = "L"]

\* lines 61-72
OnCurve(st) ==
  IF ArgsRaise(st.toks, st.i, 6) THEN [st EXCEPT !.raised = TRUE]
  ELSE LET a  == [j \in 1..6 |-> Float(st.toks[st.i + j])]
           p1 == <<a[1], a[2]>>
           p2 == <<a[3], a[4]>>
           p3 == <<a[5], a[6]>>
       IN  [st EXCEPT !.i = st.i + 6, !.cur = p3,
                      !.pts = st.pts \o [s \in 1..steps |-> cubic(st.cur, p1, p2, p3, s)]]

\* lines 47-75, one iteration of the while loop
Iteration(st) ==
  LET t == st.toks[st.i + 1] IN
  IF IsCommand(t) THEN OnCommand(st, t)
  ELSE IF st.cmd \in {"M", "L"} THEN OnMoveLine(st)
  ELSE IF st.cmd = "C" THEN OnCurve(st)
  ELSE [st EXCEPT !.i = st.i + 1]

\* lines 76-77
Finish(ps, pl) == IF Len(pl) >= 3 THEN Append(ps, pl) ELSE ps

\* Path descriptions are written from command lists, a command being
\* [op, args]: the letter, then the numbers in decimal as x,y pairs that a
\* space separates, commands separated by a space, as in
\* M0,0 L10,0 L10,10 Z
RECURSIVE Dec(_)
Dec(n) ==
  IF n < 0 THEN <<"-">> \o Dec(-n)
  ELSE IF n < 10 THEN <<Digits[n + 1]>>
  ELSE Dec(n \div 10) \o <<Digits[(n % 10) + 1]>>

RECURSIVE Pairs(_)
Pairs(a) ==
  IF a = <<>> THEN <<>>
  ELSE Dec(a[1]) \o <<",">> \o Dec(a[2])
         \o (IF Len(a) > 2 THEN <<" ">> ELSE <<>>) \o Pairs(SubSeq(a, 3, Len(a)))

RECURSIVE Render(_)
Render(c) ==
  IF c = <<>> THEN <<>>
  ELSE <<c[1].op>> \o Pairs(c[1].args)
         \o (IF Len(c) > 1 THEN <<" ">> ELSE <<>>) \o Render(Tail(c))

Cmd(o, a) == [op |-> o, args |-> a]

PathPoints == {<<0, 0>>, <<10, 0>>, <<10, 10>>, <<-3, 125>>}

\* M p0 L p1 .. L pk Z
ClosedSimple ==
  UNION {{<<Cmd("M", p[1])>> \o [j \in 1..k |-> Cmd("L", p[j + 1])] \o <<Cmd("Z", <<>>)>> :
            p \in [1..(k + 1) -> PathPoints]} : k \in 2..MaxLines}

MixedCmds ==
  {Cmd("M", <<0, 0>>), Cmd("M", <<20, 20>>), Cmd("L", <<10, 0>>),
   Cmd("L", <<10, 10>>), Cmd("Z", <<>>), Cmd("z", <<>>), Cmd("m", <<5, 5>>),
   Cmd("l", <<1, 1>>), Cmd("C", <<0, 10, 10, 10, 10, 0>>)}

Mixed == SeqsOf(MixedCmds, 1, MaxCmds)

\* the j-th point of a description with sub-paths
SubPoint(j) == <<10 * j, (7 * j * j) % 30>>

\* a sub-path of a lines, optionally closed, then a sub-path of b lines,
\* optionally closed
SubPaths ==
  {<<Cmd("M", SubPoint(0))>> \o [j \in 1..a |-> Cmd("L", SubPoint(j))]
     \o (IF z1 THEN <<Cmd("Z", <<>>)>> ELSE <<>>)
     \o <<Cmd("M", SubPoint(a + 1))>> \o [j \in 1..b |-> Cmd("L", SubPoint(a + 1 + j))]
     \o (IF z2 THEN <<Cmd("Z", <<>>)>> ELSE <<>>) :
     a \in 1..MaxLines, b \in 1..MaxLines, z1 \in BOOLEAN, z2 \in BOOLEAN}

\* files with two path elements
TwoPaths ==
  LET e == {<<Cmd("M", <<0, 0>>), Cmd("L", <<10, 0>>), Cmd("L", <<10, 10>>), Cmd("Z", <<>>)>>,
            <<Cmd("M", <<0, 0>>), Cmd("L", <<10, 0>>)>>,
            <<Cmd("M", <<5, 5>>), Cmd("C", <<0, 10, 10, 10, 10, 0>>), Cmd("Z", <<>>)>>}
  IN  [1..2 -> e]

\* descriptions that parse_svg_paths gives up on:
\* M0,0 H5 L10,0 L10,10   and   M0,0 L10   and   C1,2 3,4 5
Broken ==
  {<<"M", "0", ",", "0", " ", "H", "5", " ", "L", "1", "0", ",", "0", " ",
     "L", "1", "0", ",", "1", "0">>,
   <<"M", "0", ",", "0", " ", "L", "1", "0">>,
   <<"C", "1", ",", "2", " ", "3", ",", "4", " ", "5">>}

InitParse ==
  /\ IdleLzw /\ IdleSub /\ IdleGif /\ IdleFill /\ IdleFrames
  /\ pc = "parse_for"
  /\ \/ /\ cmds \in {<<c>> : c \in ClosedSimple \cup Mixed \cup SubPaths} \cup TwoPaths \cup {<<>>}
        /\ svg = [k \in 1..Len(cmds) |-> Render(cmds[k])]
     \/ /\ cmds = <<>>
        /\ svg \in {<<d>> : d \in Broken}
  /\ path_i = 0 /\ toks = <<>> /\ tok_i = 0 /\ cmd = "" /\ cur_pt = <<0, 0>>
  /\ pts = <<>> /\ paths = <<>>

\* lines 40-45: the for loop takes the next path description
PathBegin ==
  /\ pc = "parse_for"
  /\ path_i < Len(svg)
  /\ path_i' = path_i + 1
  /\ toks' = Tokens(svg[path_i + 1], 1)
  /\ tok_i' = 0
  /\ cmd' = ""
  /\ cur_pt' = <<0, 0>>
  /\ pts' = <<>>
  /\ pc' = "parse_while"
  /\ UNCHANGED <<cmds, svg, paths, lzwVars, subVars, gifVars, fillVars, frameVars>>

\* lines 46-75: one iteration of the while loop
PathStep ==
  /\ pc = "parse_while"
  /\ tok_i < Len(toks)
  /\ LET st == Iteration([toks |-> toks, i |-> tok_i, cmd |-> cmd, cur |-> cur_pt,
                          pts |-> pts, broke |-> FALSE, raised |-> FALSE])
     IN  /\ tok_i' = st.i
         /\ cmd' = st.cmd
         /\ cur_pt' = st.cur
         /\ pts' = st.pts
         /\ pc' = IF st.raised THEN "parse_raised"
                  ELSE IF st.broke THEN "parse_if" ELSE "parse_while"
  /\ UNCHANGED <<cmds, svg, path_i, toks, paths, lzwVars, subVars, gifVars, fillVars, frameVars>>

\* lines 76-77, reached by the break or when the while condition fails
PathEnd ==
  /\ pc = "parse_if" \/ (pc = "parse_while" /\ tok_i >= Len(toks))
  /\ paths' = Finish(paths, pts)
  /\ pc' = "parse_for"
  /\ UNCHANGED <<cmds, svg, path_i, toks, tok_i, cmd, cur_pt, pts,
                 lzwVars, subVars, gifVars, fillVars, frameVars>>

\* line 78
ParseReturn ==
  /\ pc = "parse_for"
  /\ path_i = Len(svg)
  /\ pc' = "parsed"
  /\ UNCHANGED <<parseVars, lzwVars, subVars, gifVars, fillVars, frameVars>>

NextParse == PathBegin \/ PathStep \/ PathEnd \/ ParseReturn

SpecParse == InitParse /\ [][NextParse]_vars

\* the points of the commands c[i..j], in units of 1/4096
PointsOf(c, i, j) == [k \in 1..(j - i + 1) |-> Pt(c[i + k - 1].args[1], c[i + k - 1].args[2])]

\* the sub-paths of a list of MoveTo and LineTo commands that starts with a
\* MoveTo: from command i on, each runs from a MoveTo to the next one
RECURSIVE SubPathsFrom(_, _)
SubPathsFrom(c, i) ==
  IF i > Len(c) THEN <<>>
  ELSE LET later == {j \in (i + 1)..Len(c) : c[j].op = "M"}
           e == IF later = {} THEN Len(c) + 1
                ELSE CHOOSE j \in later : \A k \in later : j <= k
       IN  <<PointsOf(c, i, e - 1)>> \o SubPathsFrom(c, e)

MoveLineOnly(c) ==
  /\ Len(c) >= 1
  /\ c[1].op = "M"
  /\ \A j \in 1..Len(c) : c[j].op \in {"M", "L"}

\* C3: for one path description of MoveTo and LineTo commands with two
\* sub-paths or more, each of 3 points or more, parse_svg_paths returns the
\* sub-paths as separate polygons in source order: each MoveTo after the
\* first finalizes the polygon accumulated so far and starts a new one, and
\* no polygon holds points from both sides of it.
C3_MoveToSplits ==
  (pc = "parsed" /\ Len(cmds) = 1 /\ MoveLineOnly(cmds[1])) =>
    LET sp == SubPathsFrom(cmds[1], 1) IN
      (Len(sp) >= 2 /\ \A k \in 1..Len(sp) : Len(sp[k]) >= 3) => paths = sp

ClosedSimplePath(c) ==
  /\ Len(c) >= 4
  /\ c[1].op = "M"
  /\ c[Len(c)].op = "Z"
  /\ \A j \in 2..(Len(c) - 1) : c[j].op = "L"

\* C4: for one path description made of a MoveTo, k >= 2 absolute LineTo
\* commands and Z, parse_svg_paths returns exactly one polygon, whose
\* points are the k+1 coordinates in source order; Z adds no point.
C4_ClosedSimplePath ==
  (pc = "parsed" /\ Len(cmds) = 1 /\ ClosedSimplePath(cmds[1])) =>
    paths = <<PointsOf(cmds[1], 1, Len(cmds[1]) - 1)>>

\* C4 witness: M0,0 L10,0 L10,10 Z has been parsed to the one polygon
\* (0,0), (10,0), (10,10).
C4_Witness ==
  /\ pc = "parsed"
  /\ svg = <<<<"M", "0", ",", "0", " ", "L", "1", "0", ",", "0", " ",
              "L", "1", "0", ",", "1", "0", " ", "Z">>>>
  /\ ClosedSimplePath(cmds[1])
  /\ paths = <<<<Pt(0, 0), Pt(10, 0), Pt(10, 10)>>>>

----------------------------------------------------------------------------
(* build_frame: the colour of each polygon *)

FRAMES == 24

\* color with the two tests in the other order, so that the test for 3 is
\* never reached; C5 tells the two apart
colorMediumFirst(n, f, i) ==
  LET m == FRAMES * n
      r == (f * n - FRAMES * i) % m
      d == IF 2 * r >= m THEN 2 * r - m ELSE m - 2 * r
  IN  IF 20 * d < 13 * m THEN {2}
      ELSE IF 20 * d = 13 * m THEN {1, 2}
      ELSE {1}

\* Lines 140-148 for polygon i of n in frame f, as the set of colours the
\* double arithmetic can yield.  With r = (f*n - FRAMES*i) mod FRAMES*n the
\* phase of line 141 is r / (FRAMES*n), and with d = |2r - FRAMES*n| the
\* pulse of line 142 is 1 - d / (FRAMES*n); so pulse > 0.75 is
\* 4d < FRAMES*n and pulse > 0.35 is 20d < 13*FRAMES*n.  Where the pulse is
\* 0.35 as a real number, rounding decides between 1 and 2.
color(n, f, i) ==
  LET m == FRAMES * n
      r == (f * n - FRAMES * i) % m
      d == IF 2 * r >= m THEN 2 * r - m ELSE m - 2 * r
  IN  IF 4 * d < m THEN {3}
      ELSE IF 20 * d < 13 * m THEN {2}
      ELSE IF 20 * d = 13 * m THEN {1, 2}
      ELSE {1}

\* the colours build_frame can give polygons 0..k-1 of n in frame f, as
\* lists (polygon i at position i+1)
RECURSIVE Colorings(_, _, _)
Colorings(n, f, k) ==
  IF k = 0 THEN {<<>>}
  ELSE {Append(c, x) : c \in Colorings(n, f, k - 1), x \in color(n, f, k - 1)}

InitFrames ==
  /\ IdleLzw /\ IdleSub /\ IdleGif /\ IdleFill /\ IdleParse
  /\ pc = "frames"
  /\ npaths \in 1..MaxPaths
  /\ frame_idx = 0
  /\ colors = <<>>
  /\ seen = [i \in 1..npaths |-> {}]

\* line 292, one call build_frame(paths, frame_idx); the pixel buffer the
\* call returns is not part of this state
BuildFrame ==
  /\ pc = "frames"
  /\ frame_idx < FRAMES
  /\ colors' \in Colorings(npaths, frame_idx, npaths)
  /\ seen' = [i \in 1..npaths |-> seen[i] \cup {colors'[i]}]
  /\ frame_idx' = frame_idx + 1
  /\ UNCHANGED <<pc, npaths, lzwVars, subVars, gifVars, fillVars, parseVars>>

\* line 292, the comprehension is exhausted
FramesBuilt ==
  /\ pc = "frames"
  /\ frame_idx = FRAMES
  /\ pc' = "frames_built"
  /\ UNCHANGED <<frameVars, lzwVars, subVars, gifVars, fillVars, parseVars>>

NextFrames == BuildFrame \/ FramesBuilt

SpecFrames == InitFrames /\ [][NextFrames]_vars

\* C5: for every polygon count n >= 1 and every polygon i of the n, over
\* the frames 0..FRAMES-1 build_frame gives polygon i each of the colours
\* 1, 2 and 3 in at least one frame.
C5_ColorTiers ==
  pc = "frames_built" => \A i \in 1..npaths : seen[i] = {1, 2, 3}

\* C5 witness: the 24 frames of five polygons have been built, the last
\* frame holds the three colours, and every polygon has had all three.
C5_Witness ==
  /\ pc = "frames_built"
  /\ npaths = 5
  /\ frame_idx = FRAMES
  /\ {colors[i] : i \in 1..npaths} = {1, 2, 3}
  /\ \A i \in 1..npaths : seen[i] = {1, 2, 3}

=============================================================================
